---- MODULE Spec2Model ----
(***************************************************************************)
(* Watch Store API (src/main.py, src/schemas.py): the document store with  *)
(* its three collections (watch, cartitem, order) and the request handlers *)
(* seed_watches, get_watch, add_to_cart, get_cart and checkout.            *)
(*                                                                         *)
(* Money is counted in thousandths of a unit (599.0 is 599000), so that    *)
(* round(x, 2) is a real rounding to a multiple of 10 thousandths.         *)
(* An id string is a record: wellformed tells whether bson's ObjectId      *)
(* accepts it (24 hex digits), value is the ObjectId it denotes.           *)
(***************************************************************************)
EXTENDS Integers, Sequences, FiniteSets, TLC

VARIABLES
    db,         \* the store handle of `from database import db`: "connected" or "None"
    watch,      \* the watch collection, in insertion order
    cartitem,   \* the cartitem collection, in insertion order
    order,      \* the order collection, in insertion order
    nextId,     \* the store's id generator: the next ObjectId it hands out
    request,    \* the request handled last
    response,   \* the response to it
    seedPc,     \* concurrent seed requests: each request's position in seed_watches
    seedCount,  \* concurrent seed requests: the local variable count
    seedNext,   \* concurrent seed requests: the index in sample of the next doc of the loop
    seedResp    \* concurrent seed requests: each request's response

vars == <<db, watch, cartitem, order, nextId, request, response,
          seedPc, seedCount, seedNext, seedResp>>

store == <<watch, cartitem, order, nextId>>
seedVars == <<seedPc, seedCount, seedNext, seedResp>>

\* ---------------------------------------------------------------- bounds

\* The cart items and orders the store takes in all.
MaxInserts == 3
NumSeeders == 3

CartIds == {"c1", "c2"}
Quantities == {-1, 1, 2}
Emails == {"None", "a@b.c"}
SeedRequests == 1..NumSeeders

\* ------------------------------------------------------------- id strings

\* str(ObjectId): the 24-digit hex string of an ObjectId.
Str(oid) == [wellformed |-> TRUE, value |-> oid]

\* A string that is not 24 hex digits.
MalformedId == [wellformed |-> FALSE, value |-> 0]

\* A well-formed id string that the store never hands out.
UnknownOid == 99

\* The ids GET /watches/{id} is asked for: the three watches of the sample, an
\* id the store gave to a cart item or an order, one it never gave, and a
\* malformed string.
IdStrings == {Str(n) : n \in {1, 2, 3, 4, UnknownOid}} \cup {MalformedId}

\* The product ids POST /cart/add is asked for: the first watch of the sample,
\* an id the store never gave, and a malformed string.
ProductIds == {Str(1), Str(UnknownOid), MalformedId}

\* bson.ObjectId(s): the ObjectId of a well-formed string, InvalidId otherwise.
ObjectId(s) ==
    IF s.wellformed THEN [raised |-> FALSE, value |-> s.value]
    ELSE [raised |-> TRUE, exc |-> "InvalidId"]

\* ------------------------------------------------------------- responses

HTTPException(status_code, detail) == [status |-> status_code, detail |-> detail]

DatabaseNotAvailable == HTTPException(500, "Database not available")

\* What the framework answers when a handler lets an exception escape.
InternalServerError == HTTPException(500, "Internal Server Error")

NoRequest == [op |-> "none"]
NoResponse == [status |-> 0]

\* ------------------------------------------------------------- the store

None == [none |-> TRUE]

\* collection.count_documents({})
count_documents(coll) == Len(coll)

\* collection.find_one({"_id": oid})
find_one(coll, oid) ==
    IF \E i \in 1..Len(coll) : coll[i]._id = oid
    THEN coll[CHOOSE i \in 1..Len(coll) :
                  coll[i]._id = oid /\ \A j \in 1..(i - 1) : coll[j]._id # oid]
    ELSE None

\* list(collection.find({"cart_id": cart_id}))
find(coll, cart_id) == SelectSeq(coll, LAMBDA d : d.cart_id = cart_id)

\* get_documents(name, {"cart_id": cart_id}): the adapter's query, all the
\* documents of the collection that match the filter.
get_documents(coll, cart_id) == SelectSeq(coll, LAMBDA d : d.cart_id = cart_id)

\* create_document(name, doc): the collection with doc appended under a newly
\* generated id.
create_document(coll, doc, oid) == Append(coll, [_id |-> oid] @@ doc)

\* d["id"] = str(d.pop("_id"))
ShapeId(doc) ==
    [f \in (DOMAIN doc \ {"_id"}) \cup {"id"} |->
        IF f = "id" THEN Str(doc._id) ELSE doc[f]]

ShapeAll(docs) == [i \in 1..Len(docs) |-> ShapeId(docs[i])]

\* round(x, 2) on thousandths: to the nearest multiple of 10, ties to even.
Round2(x) ==
    LET q == x \div 10
        r == x % 10
    IN  IF r < 5 THEN q * 10
        ELSE IF r > 5 THEN (q + 1) * 10
        ELSE IF q % 2 = 0 THEN q * 10 ELSE (q + 1) * 10

\* sum(i.get("price_snapshot", 0) * i.get("quantity", 1) for i in items)
RECURSIVE SumItems(_)
SumItems(items) ==
    IF items = <<>> THEN 0
    ELSE Head(items).price_snapshot * Head(items).quantity + SumItems(Tail(items))

\* The prices alone, summed.
RECURSIVE SumPrices(_)
SumPrices(items) ==
    IF items = <<>> THEN 0
    ELSE Head(items).price_snapshot + SumPrices(Tail(items))

\* ------------------------------------------------------------ seed_watches

sample == <<
    [title |-> "ChronoMaster Pro", price |-> 599000, brand |-> "Aeternum",
     collection |-> "chronograph", image |-> "photo-1518081461904", in_stock |-> TRUE],
    [title |-> "Elegance Dress 40", price |-> 749000, brand |-> "Novelle",
     collection |-> "dress", image |-> "photo-1516570161787", in_stock |-> TRUE],
    [title |-> "AquaSport 300", price |-> 899000, brand |-> "Pelagos",
     collection |-> "sport", image |-> "photo-1518546305927", in_stock |-> TRUE] >>

\* The guard with the wrong threshold: a seeded collection is seeded again.
AlreadySeeded_lax(count) == count > Len(sample)

\* if count > 0: return {"inserted": 0, ...}
AlreadySeeded(count) == count > 0

\* for doc in sample: create_document("watch", doc)
RECURSIVE InsertAll(_, _, _)
InsertAll(coll, docs, oid) ==
    IF docs = <<>> THEN coll
    ELSE InsertAll(create_document(coll, Head(docs), oid), Tail(docs), oid + 1)

seed_watches ==
    /\ request' = [op |-> "seed"]
    /\ IF db = "None"
       THEN /\ response' = DatabaseNotAvailable
            /\ UNCHANGED store
       ELSE IF AlreadySeeded(count_documents(watch))
       THEN /\ response' = [status |-> 200, inserted |-> 0, message |-> "Already seeded"]
            /\ UNCHANGED store
       ELSE /\ watch' = InsertAll(watch, sample, nextId)
            /\ nextId' = nextId + Len(sample)
            /\ response' = [status |-> 200, inserted |-> Len(sample)]
            /\ UNCHANGED <<cartitem, order>>
    /\ UNCHANGED <<db, seedVars>>

\* --------------------------------------------------------------- get_watch

\* The body of the try block: what it returns or the exception it raises.
get_watch_try(watch_id) ==
    LET oid == ObjectId(watch_id)
        doc == find_one(watch, oid.value)
    IN  IF oid.raised THEN [raised |-> TRUE, exc |-> "InvalidId"]
        ELSE IF doc = None
        THEN [raised |-> TRUE, exc |-> HTTPException(404, "Watch not found")]
        ELSE [raised |-> FALSE, value |-> [status |-> 200, doc |-> ShapeId(doc)]]

get_watch(watch_id) ==
    /\ request' = [op |-> "get_watch", watch_id |-> watch_id]
    /\ IF db = "None"
       THEN response' = DatabaseNotAvailable
       ELSE LET r == get_watch_try(watch_id)
            IN  \* except Exception: raise HTTPException(400, "Invalid ID")
                IF r.raised THEN response' = HTTPException(400, "Invalid ID")
                ELSE response' = r.value
    /\ UNCHANGED <<db, store, seedVars>>

\* ------------------------------------------------------------- add_to_cart

\* AddToCartIn: cart_id: str, product_id: str, quantity: int = 1
\* (float(product.get("price", 0)) is the price itself: every watch has a float price)
AddToCartIn == [cart_id : CartIds, product_id : ProductIds, quantity : Quantities]

\* add_to_cart merging into an existing line of the same cart and product
\* instead of appending a new one.
add_to_cart_merging(payload) ==
    /\ request' = [op |-> "add_to_cart", payload |-> payload]
    /\ IF db = "None"
       THEN /\ response' = DatabaseNotAvailable
            /\ UNCHANGED store
       ELSE LET oid == ObjectId(payload.product_id)
                product == find_one(watch, oid.value)
                same == {i \in 1..Len(cartitem) :
                            /\ cartitem[i].cart_id = payload.cart_id
                            /\ cartitem[i].product_id = payload.product_id}
            IN  IF oid.raised
                THEN /\ response' = InternalServerError
                     /\ UNCHANGED store
                ELSE IF product = None
                THEN /\ response' = HTTPException(404, "Product not found")
                     /\ UNCHANGED store
                ELSE IF same # {}
                THEN /\ cartitem' = [i \in 1..Len(cartitem) |->
                            IF i \in same
                            THEN [cartitem[i] EXCEPT !.quantity = @ + payload.quantity]
                            ELSE cartitem[i]]
                     /\ response' = [status |-> 200, body |-> "ok"]
                     /\ UNCHANGED <<watch, order, nextId>>
                ELSE /\ Len(cartitem) + Len(order) < MaxInserts
                     /\ cartitem' = create_document(cartitem,
                            [cart_id |-> payload.cart_id,
                             product_id |-> payload.product_id,
                             quantity |-> payload.quantity,
                             price_snapshot |-> product.price,
                             title_snapshot |-> product.title,
                             image_snapshot |-> product.image], nextId)
                     /\ nextId' = nextId + 1
                     /\ response' = [status |-> 200, body |-> "ok"]
                     /\ UNCHANGED <<watch, order>>
    /\ UNCHANGED <<db, seedVars>>

add_to_cart(payload) ==
    /\ request' = [op |-> "add_to_cart", payload |-> payload]
    /\ IF db = "None"
       THEN /\ response' = DatabaseNotAvailable
            /\ UNCHANGED store
       ELSE LET oid == ObjectId(payload.product_id)
                product == find_one(watch, oid.value)
            IN  IF oid.raised
                THEN \* InvalidId escapes the handler
                     /\ response' = InternalServerError
                     /\ UNCHANGED store
                ELSE IF product = None
                THEN /\ response' = HTTPException(404, "Product not found")
                     /\ UNCHANGED store
                ELSE /\ Len(cartitem) + Len(order) < MaxInserts
                     /\ cartitem' = create_document(cartitem,
                            [cart_id |-> payload.cart_id,
                             product_id |-> payload.product_id,
                             quantity |-> payload.quantity,
                             price_snapshot |-> product.price,
                             title_snapshot |-> product.title,
                             image_snapshot |-> product.image], nextId)
                     /\ nextId' = nextId + 1
                     /\ response' = [status |-> 200, body |-> "ok"]
                     /\ UNCHANGED <<watch, order>>
    /\ UNCHANGED <<db, seedVars>>

\* ---------------------------------------------------------------- get_cart

\* The total with the quantities forgotten.
CartTotal_noqty(items) == Round2(SumPrices(items))

\* total = sum(...); "total": round(total, 2)
CartTotal(items) == Round2(SumItems(items))

get_cart(cart_id) ==
    /\ request' = [op |-> "get_cart", cart_id |-> cart_id]
    /\ IF db = "None"
       THEN response' = DatabaseNotAvailable
       ELSE LET items == ShapeAll(get_documents(cartitem, cart_id))
            IN  response' = [status |-> 200, items |-> items, total |-> CartTotal(items)]
    /\ UNCHANGED <<db, store, seedVars>>

\* ---------------------------------------------------------------- checkout

\* CheckoutIn: cart_id: str, email: Optional[str] = None
CheckoutIn == [cart_id : CartIds, email : Emails]

\* The empty-cart check left out.
CartIsEmpty_never(cart_items) == FALSE

\* if not cart_items: raise HTTPException(400, "Cart is empty")
CartIsEmpty(cart_items) == cart_items = <<>>

\* The subtotal with the quantities forgotten.
Subtotal_noqty(cart_items) == Round2(SumPrices(cart_items))

\* subtotal = sum(...); 'subtotal': round(float(subtotal), 2)
Subtotal(cart_items) == Round2(SumItems(cart_items))

\* checkout clearing the cart it has turned into an order.
checkout_consuming(payload) ==
    /\ request' = [op |-> "checkout", payload |-> payload]
    /\ IF db = "None"
       THEN /\ response' = DatabaseNotAvailable
            /\ UNCHANGED store
       ELSE LET found == find(cartitem, payload.cart_id)
                cart_items == ShapeAll(found)
            IN  IF CartIsEmpty(found)
                THEN /\ response' = HTTPException(400, "Cart is empty")
                     /\ UNCHANGED store
                ELSE /\ Len(cartitem) + Len(order) < MaxInserts
                     /\ order' = create_document(order,
                            [cart_id |-> payload.cart_id,
                             items |-> cart_items,
                             subtotal |-> Subtotal(cart_items),
                             status |-> "paid",
                             email |-> payload.email], nextId)
                     /\ nextId' = nextId + 1
                     /\ response' = [status |-> 200, body |-> "paid",
                                     order_id |-> Str(nextId)]
                     /\ cartitem' = SelectSeq(cartitem,
                                              LAMBDA d : d.cart_id # payload.cart_id)
                     /\ UNCHANGED watch
    /\ UNCHANGED <<db, seedVars>>

checkout(payload) ==
    /\ request' = [op |-> "checkout", payload |-> payload]
    /\ IF db = "None"
       THEN /\ response' = DatabaseNotAvailable
            /\ UNCHANGED store
       ELSE LET found == find(cartitem, payload.cart_id)
                cart_items == ShapeAll(found)
            IN  IF CartIsEmpty(found)
                THEN /\ response' = HTTPException(400, "Cart is empty")
                     /\ UNCHANGED store
                ELSE /\ Len(cartitem) + Len(order) < MaxInserts
                     /\ order' = create_document(order,
                            [cart_id |-> payload.cart_id,
                             items |-> cart_items,
                             subtotal |-> Subtotal(cart_items),
                             status |-> "paid",
                             email |-> payload.email], nextId)
                     /\ nextId' = nextId + 1
                     /\ response' = [status |-> 200, body |-> "paid",
                                     order_id |-> Str(nextId)]
                     /\ UNCHANGED <<watch, cartitem>>
    /\ UNCHANGED <<db, seedVars>>

\* ------------------------------------------------- requests one at a time

Init ==
    /\ db \in {"connected", "None"}
    /\ watch = <<>>
    /\ cartitem = <<>>
    /\ order = <<>>
    /\ nextId = 1
    /\ request = NoRequest
    /\ response = NoResponse
    /\ seedPc = [p \in SeedRequests |-> "start"]
    /\ seedCount = [p \in SeedRequests |-> 0]
    /\ seedNext = [p \in SeedRequests |-> 1]
    /\ seedResp = [p \in SeedRequests |-> NoResponse]

Next ==
    \/ seed_watches
    \/ \E watch_id \in IdStrings : get_watch(watch_id)
    \/ \E payload \in AddToCartIn : add_to_cart(payload)
    \/ \E cart_id \in CartIds : get_cart(cart_id)
    \/ \E payload \in CheckoutIn : checkout(payload)

Spec == Init /\ [][Next]_vars

\* ------------------------------------------- concurrent POST /seed requests
\* Each request runs seed_watches in its own worker thread; the count and each
\* insert are separate store operations, and nothing orders them across requests.

\* if db is None: raise ...; count = db["watch"].count_documents({});
\* if count > 0: return {"inserted": 0, ...}
SeedCountStep(p) ==
    /\ seedPc[p] = "start"
    /\ IF db = "None"
       THEN /\ seedResp' = [seedResp EXCEPT ![p] = DatabaseNotAvailable]
            /\ seedPc' = [seedPc EXCEPT ![p] = "done"]
            /\ UNCHANGED seedCount
       ELSE /\ seedCount' = [seedCount EXCEPT ![p] = count_documents(watch)]
            /\ IF AlreadySeeded(count_documents(watch))
               THEN /\ seedResp' = [seedResp EXCEPT ![p] =
                            [status |-> 200, inserted |-> 0, message |-> "Already seeded"]]
                    /\ seedPc' = [seedPc EXCEPT ![p] = "done"]
               ELSE /\ seedPc' = [seedPc EXCEPT ![p] = "insert"]
                    /\ UNCHANGED seedResp
    /\ UNCHANGED <<db, store, request, response, seedNext>>

\* One turn of the loop: create_document("watch", doc); after the last one,
\* return {"inserted": len(sample)}
SeedInsertStep(p) ==
    /\ seedPc[p] = "insert"
    /\ watch' = create_document(watch, sample[seedNext[p]], nextId)
    /\ nextId' = nextId + 1
    /\ IF seedNext[p] = Len(sample)
       THEN /\ seedResp' = [seedResp EXCEPT ![p] = [status |-> 200, inserted |-> Len(sample)]]
            /\ seedPc' = [seedPc EXCEPT ![p] = "done"]
            /\ UNCHANGED seedNext
       ELSE /\ seedNext' = [seedNext EXCEPT ![p] = seedNext[p] + 1]
            /\ UNCHANGED <<seedResp, seedPc>>
    /\ UNCHANGED <<db, cartitem, order, request, response, seedCount>>

NextSeedRace ==
    \/ \E p \in SeedRequests : SeedCountStep(p)
    \/ \E p \in SeedRequests : SeedInsertStep(p)

SpecSeedRace == Init /\ [][NextSeedRace]_vars

\* ============================================================ the claims

Available == db # "None"

\* The places in coll of the cart items of cart c.
ItemIdx(coll, c) == {i \in 1..Len(coll) : coll[i].cart_id = c}

\* A stored cart item as a client sees it: the store's _id gone, id its string.
AsReturned(d) ==
    [id |-> Str(d._id), cart_id |-> d.cart_id, product_id |-> d.product_id,
     quantity |-> d.quantity, price_snapshot |-> d.price_snapshot,
     title_snapshot |-> d.title_snapshot, image_snapshot |-> d.image_snapshot]

\* price_snapshot x quantity, summed over the places idx of coll.
RECURSIVE SumOfLines(_, _)
SumOfLines(coll, idx) ==
    IF idx = {} THEN 0
    ELSE LET i == CHOOSE k \in idx : TRUE
         IN  coll[i].price_snapshot * coll[i].quantity + SumOfLines(coll, idx \ {i})

\* Whether the id string s names a watch of the watch collection.
NamesWatch(s) == s.wellformed /\ \E i \in 1..Len(watch) : watch[i]._id = s.value

\* The items list is, as a set and in number, the cart items of coll at idx.
SameItems(items, coll, idx) ==
    /\ Len(items) = Cardinality(idx)
    /\ {items[k] : k \in 1..Len(items)} = {AsReturned(coll[i]) : i \in idx}

\* C1: GET /watches/{id} with the store available and a well-formed id that
\* matches no watch answers 404 (not found), not the 400 of a malformed id.
C1_NotFoundIs404 ==
    (/\ request.op = "get_watch"
     /\ Available
     /\ request.watch_id.wellformed
     /\ ~NamesWatch(request.watch_id))
        => response.status = 404

\* C2: POST /cart/add with the store available fails in one way only, 404:
\* a product_id naming no watch, well-formed or not, gets 404 and leaves the
\* cartitem collection unchanged; a product_id naming a watch succeeds.
C2_AddFailsOnlyWith404 ==
    [][(request'.op = "add_to_cart" /\ Available) =>
        IF NamesWatch(request'.payload.product_id)
        THEN response'.status = 200
        ELSE response'.status = 404 /\ cartitem' = cartitem]_vars

\* C3: in every reachable state every cart item has quantity >= 1 and
\* price_snapshot >= 0, and every order has subtotal >= 0.
C3_AmountsInRange ==
    /\ \A i \in 1..Len(cartitem) :
          cartitem[i].quantity >= 1 /\ cartitem[i].price_snapshot >= 0
    /\ \A j \in 1..Len(order) : order[j].subtotal >= 0

\* C4: seed calls one after another: the call on the empty watch collection
\* inserts the 3 sample records and reports inserted=3, every later call inserts
\* nothing and reports inserted=0, nothing else changes the collection, so its
\* size after N calls is its size after one.
C4_SeedIdempotent ==
    [][/\ (request'.op = "seed" /\ Available) =>
            IF Len(watch) = 0
            THEN response'.inserted = 3 /\ Len(watch') = 3
            ELSE response'.inserted = 0 /\ watch' = watch /\ Len(watch') = 3
       /\ request'.op # "seed" => watch' = watch]_vars

\* A seed call made after the one that seeded.
C4_Witness ==
    /\ request.op = "seed"
    /\ Available
    /\ response.status = 200
    /\ response.inserted = 0
    /\ Len(watch) = 3

\* C5: POST /checkout for a cart_id with no cart item answers 400, cart is
\* empty, and leaves the order collection unchanged.
C5_EmptyCartCheckoutFails ==
    [][(/\ request'.op = "checkout"
        /\ Available
        /\ ItemIdx(cartitem, request'.payload.cart_id) = {})
            => /\ response'.status = 400
               /\ response'.detail = "Cart is empty"
               /\ order' = order]_vars

\* A checkout of an empty cart while the other cart has items and an order.
C5_Witness ==
    /\ request.op = "checkout"
    /\ Available
    /\ response.status = 400
    /\ ItemIdx(cartitem, request.payload.cart_id) = {}
    /\ cartitem # <<>>
    /\ order # <<>>

\* C6: a successful POST /checkout for cart c inserts exactly one order: its
\* cart_id is c, its items are the cart items of c, its subtotal is the sum of
\* price_snapshot x quantity over them, its status is "paid".
C6_CheckoutCreatesPaidOrder ==
    [][(request'.op = "checkout" /\ response'.status = 200) =>
        LET c == request'.payload.cart_id
            idx == ItemIdx(cartitem, c)
            o == order'[Len(order')]
        IN  /\ Len(order') = Len(order) + 1
            /\ SubSeq(order', 1, Len(order)) = order
            /\ \A j \in 1..Len(order) : order[j]._id # o._id
            /\ response'.order_id = Str(o._id)
            /\ o.cart_id = c
            /\ idx # {}
            /\ SameItems(o.items, cartitem, idx)
            /\ o.subtotal = SumOfLines(cartitem, idx)
            /\ o.status = "paid"]_vars

\* The checkout of a cart of one item, price 599 and quantity 2: subtotal 1198.
C6_Witness ==
    /\ request.op = "checkout"
    /\ response.status = 200
    /\ LET o == order[Len(order)]
       IN  /\ Len(o.items) = 1
           /\ o.items[1].price_snapshot = 599000
           /\ o.items[1].quantity = 2
           /\ o.subtotal = 1198000
           /\ o.status = "paid"

\* C7: POST /checkout, successful or not, leaves the cartitem and watch
\* collections and the earlier orders as they were; so the checkout of a
\* non-empty cart succeeds again, and the further order has the items and the
\* subtotal of an earlier order of the cart that nothing was added to since.
C7_CheckoutKeepsCart ==
    [][request'.op = "checkout" =>
        LET c == request'.payload.cart_id
            idx == ItemIdx(cartitem, c)
        IN  /\ cartitem' = cartitem
            /\ watch' = watch
            /\ Len(order') >= Len(order)
            /\ SubSeq(order', 1, Len(order)) = order
            /\ (Available /\ idx # {}) =>
                  /\ response'.status = 200
                  /\ Len(order') = Len(order) + 1
                  /\ \A j \in 1..Len(order) :
                        (/\ order[j].cart_id = c
                         /\ Len(order[j].items) = Cardinality(idx))
                            => /\ order'[Len(order')].items = order[j].items
                               /\ order'[Len(order')].subtotal = order[j].subtotal]_vars

\* The same cart checked out twice: two orders, the cart still there.
C7_Witness ==
    /\ request.op = "checkout"
    /\ response.status = 200
    /\ Len(order) = 2
    /\ order[1].cart_id = order[2].cart_id
    /\ order[1].items = order[2].items
    /\ order[1].subtotal = order[2].subtotal
    /\ order[1]._id # order[2]._id
    /\ ItemIdx(cartitem, order[2].cart_id) # {}

\* C8: GET /cart/{cart_id} returns the cart items whose cart_id is the path
\* value, its total is the sum of price_snapshot x quantity over the returned
\* items (0 for none), and the store is as it was.
C8_GetCartTotal ==
    [][(request'.op = "get_cart" /\ Available) =>
        LET idx == ItemIdx(cartitem, request'.cart_id)
            items == response'.items
        IN  /\ response'.status = 200
            /\ SameItems(items, cartitem, idx)
            /\ response'.total = SumOfLines(items, 1..Len(items))
            /\ response'.total = SumOfLines(cartitem, idx)
            /\ idx = {} => response'.total = 0
            /\ UNCHANGED <<watch, cartitem, order>>]_vars

\* A cart of two items read while the other cart holds an item too.
C8_Witness ==
    /\ request.op = "get_cart"
    /\ Available
    /\ Len(response.items) = 2
    /\ response.items[1].quantity # response.items[2].quantity
    /\ response.total # 0
    /\ Len(cartitem) = 3

\* C9: a successful POST /cart/add appends exactly one new cart item, with the
\* payload's cart, product and quantity and the watch's price, and leaves the
\* existing ones alone; a cart holding the same product twice with quantity 1
\* and nothing else has a total of twice the watch's price.
C9_AddAppendsOneItem ==
    [][/\ (request'.op = "add_to_cart" /\ response'.status = 200) =>
            LET p == request'.payload
                new == cartitem'[Len(cartitem')]
            IN  /\ Len(cartitem') = Len(cartitem) + 1
                /\ SubSeq(cartitem', 1, Len(cartitem)) = cartitem
                /\ \A i \in 1..Len(cartitem) : cartitem[i]._id # new._id
                /\ new.cart_id = p.cart_id
                /\ new.product_id = p.product_id
                /\ new.quantity = p.quantity
                /\ \E i \in 1..Len(watch) :
                      /\ Str(watch[i]._id) = p.product_id
                      /\ new.price_snapshot = watch[i].price
       /\ (request'.op = "get_cart" /\ Available) =>
            LET idx == ItemIdx(cartitem', request'.cart_id)
            IN  \A i, j \in idx :
                    (/\ idx = {i, j}
                     /\ i # j
                     /\ cartitem'[i].product_id = cartitem'[j].product_id
                     /\ cartitem'[i].quantity = 1
                     /\ cartitem'[j].quantity = 1)
                        => \E w \in 1..Len(watch') :
                              /\ Str(watch'[w]._id) = cartitem'[i].product_id
                              /\ response'.total = 2 * watch'[w].price]_vars

\* The same product added twice with quantity 1 to one cart, and the cart read.
C9_Witness ==
    /\ request.op = "get_cart"
    /\ Available
    /\ Len(cartitem) = 2
    /\ cartitem[1].cart_id = request.cart_id
    /\ cartitem[2].cart_id = request.cart_id
    /\ cartitem[1].product_id = cartitem[2].product_id
    /\ cartitem[1].quantity = 1
    /\ cartitem[2].quantity = 1
    /\ cartitem[1]._id # cartitem[2]._id
    /\ Len(response.items) = 2
    /\ response.total = 1198000

\* C10: under any interleaving of concurrent POST /seed requests on an empty
\* store the watch collection never holds more than the 3 sample records, and
\* at most one request reports inserted=3.
C10_SeedOnceUnderRace ==
    /\ Len(watch) <= 3
    /\ Cardinality({p \in SeedRequests :
            /\ seedPc[p] = "done"
            /\ seedResp[p].status = 200
            /\ seedResp[p].inserted = 3}) <= 1

====
